---- MODULE Spec2Model ----
(***************************************************************************)
(* The data-plot visualizer microservice (src/app.py): the request         *)
(* validator, the plot generator, the in-memory plot index PLOTS, the      *)
(* plots directory, and the three routes served by concurrent workers.     *)
(*                                                                         *)
(* JSON values are tagged records.  An array is kept run-length encoded:   *)
(* a sequence of runs [kind, n], n consecutive elements of one kind, so    *)
(* that arrays of 5000 and 5001 elements are ordinary inputs.  An element  *)
(* is known by what float() does with it:                                  *)
(*   "num"    a JSON number inside the range of a float      -> a float    *)
(*   "numstr" a string such as "1.5"                         -> a float    *)
(*   "bigint" a JSON integer beyond the range of a float     -> Overflow   *)
(*   "str"    a string such as "a"                           -> ValueError *)
(*   "null"   null (an array or an object behaves alike)     -> TypeError  *)
(***************************************************************************)
EXTENDS Integers, Sequences, FiniteSets, TLC

\* ------------------------------------------------------------ bounds
MaxPlots == 2       \* identifiers uuid4 hands out before the model stops
MaxClock == 1       \* datetime.utcnow() reads a time in 0..MaxClock
MaxRuns == 2        \* runs in a y array

\* ------------------------------------------------- program constants
MIN_POINTS == 2
MAX_POINTS == 5000
PLOTS_DIR == "plots"

\* ------------------------------------------------------- JSON values
ElemKinds == {"num", "numstr", "bigint", "str", "null"}
RunLens == {1, MIN_POINTS, MAX_POINTS}
Runs == [kind : ElemKinds, n : RunLens]
RunSeqs(k) == UNION {[1..m -> Runs] : m \in 0..k}

JsonNull == [t |-> "null"]
Absent == [t |-> "absent"]
JsonNumber == [t |-> "number", lit |-> "7"]
JsonString(s) == [t |-> "string", s |-> s]
JsonArray(runs) == [t |-> "array", runs |-> runs]

\* Python's None, and the values the validator returns
NoneVal == [t |-> "None"]
PyFloats(runs) == [t |-> "floats", runs |-> runs]
PyRange(n) == [t |-> "range", n |-> n]

RECURSIVE SumRuns(_)
SumRuns(runs) ==
    IF runs = <<>> THEN 0 ELSE Head(runs).n + SumRuns(Tail(runs))

\* len() of a list
PyLen(a) == SumRuns(a.runs)

\* float(v) for one element: "ok" or the exception it raises
FloatExc(kind) ==
    CASE kind \in {"num", "numstr"} -> "ok"
      [] kind = "bigint" -> "OverflowError"
      [] kind = "str" -> "ValueError"
      [] kind = "null" -> "TypeError"

\* [float(v) for v in a]: the exception of the first element that raises
RECURSIVE FirstExc(_)
FirstExc(runs) ==
    IF runs = <<>> THEN "ok"
    ELSE IF FloatExc(Head(runs).kind) # "ok" THEN FloatExc(Head(runs).kind)
    ELSE FirstExc(Tail(runs))

\* [float(v) for v in a] when no element raises
FloatList(runs) == [i \in DOMAIN runs |-> [kind |-> "float", n |-> runs[i].n]]

\* dict.get(key): None for a missing key
DictGet(field) == IF field.t = "absent" THEN JsonNull ELSE field

\* str(dict.get(key, default))
StrOf(field, default) ==
    CASE field.t = "absent" -> default
      [] field.t = "string" -> field.s
      [] field.t = "null" -> "None"
      [] field.t = "number" -> field.lit
      [] OTHER -> "<repr>"

\* isinstance(v, (list, tuple))
IsList(v) == v.t = "array"

\* ---------------------------------------------------------- validator
\* What a call of _validate_plot_request ends with: the tuple it returns,
\* or the exception that leaves it.
Returned(xs, ys, m) ==
    [raised |-> "none", x_values |-> xs, y_values |-> ys, meta_or_error |-> m]
Failed(msg) == Returned(NoneVal, NoneVal, msg)
Raised(exc) ==
    [raised |-> exc, x_values |-> NoneVal, y_values |-> NoneVal,
     meta_or_error |-> NoneVal]

\* the except clauses of lines 70 and 82
Caught == {"TypeError", "ValueError"}

MetaOf(payload) ==
    [title |-> StrOf(payload.title, "Data Plot"),
     x_label |-> StrOf(payload.x_label, "Index"),
     y_label |-> StrOf(payload.y_label, "Value")]

\* ValidateX with the numeric check of x ahead of the length check
ValidateXNumericFirst(payload, x, y_values) ==
    IF x.t = "null"
    THEN Returned(PyRange(SumRuns(y_values)), PyFloats(y_values), MetaOf(payload))
    ELSE IF ~IsList(x)
    THEN Failed("'data.x' must be an array of numbers")
    ELSE IF FirstExc(x.runs) \in Caught
    THEN Failed("all x values must be numeric")
    ELSE IF FirstExc(x.runs) # "ok"
    THEN Raised(FirstExc(x.runs))
    ELSE IF PyLen(x) # SumRuns(y_values)
    THEN Failed("x and y must have the same length")
    ELSE Returned(PyFloats(FloatList(x.runs)), PyFloats(y_values), MetaOf(payload))

\* lines 73-91, reached with y converted
ValidateX(payload, x, y_values) ==
    IF x.t = "null"
    THEN Returned(PyRange(SumRuns(y_values)), PyFloats(y_values), MetaOf(payload))
    ELSE IF ~IsList(x)
    THEN Failed("'data.x' must be an array of numbers")
    ELSE IF PyLen(x) # SumRuns(y_values)
    THEN Failed("x and y must have the same length")
    ELSE IF FirstExc(x.runs) \in Caught
    THEN Failed("all x values must be numeric")
    ELSE IF FirstExc(x.runs) # "ok"
    THEN Raised(FirstExc(x.runs))
    ELSE Returned(PyFloats(FloatList(x.runs)), PyFloats(y_values), MetaOf(payload))

\* lines 58-71, the checks of y
ValidateY(payload, x, y) ==
    IF ~IsList(y)
    THEN Failed("'data' or 'data.y' must be an array of numbers")
    ELSE IF PyLen(y) < MIN_POINTS
    THEN Failed("at least two data points are required")
    ELSE IF PyLen(y) > MAX_POINTS
    THEN Failed("data contains too many points (max 5000)")
    ELSE IF FirstExc(y.runs) \in Caught
    THEN Failed("all y values must be numeric")
    ELSE IF FirstExc(y.runs) # "ok"
    THEN Raised(FirstExc(y.runs))
    ELSE ValidateX(payload, x, FloatList(y.runs))

ValidatePlotRequest(payload) ==
    IF payload.t # "object"
    THEN Failed("request body must be a json object")
    ELSE LET data == DictGet(payload.data) IN
         IF data.t = "null"
         THEN Failed("missing 'data' field")
         ELSE IF data.t = "object"
         THEN ValidateY(payload, DictGet(data.x), DictGet(data.y))
         ELSE ValidateY(payload, JsonNull, data)

\* ------------------------------------------------------------ inputs
MetaCases ==
    {[title |-> Absent, x_label |-> Absent, y_label |-> Absent],
     [title |-> JsonString("Squares"), x_label |-> JsonString("n"),
      y_label |-> JsonString("n^2")],
     [title |-> JsonNull, x_label |-> JsonNumber, y_label |-> Absent]}

YArrays == {JsonArray(r) : r \in RunSeqs(MaxRuns)}
XArrays == {JsonArray(r) : r \in RunSeqs(1)}
YValues == {Absent, JsonNull, JsonString("ab")} \cup YArrays
XValues == {Absent, JsonNull, JsonString("ab")} \cup XArrays
DataObjects == {[t |-> "object", x |-> x, y |-> y] : x \in XValues, y \in YValues}
DataValues == {Absent, JsonNull, JsonNumber, JsonString("ab")} \cup YArrays \cup DataObjects

JsonObject(data, m) ==
    [t |-> "object", data |-> data, title |-> m.title, x_label |-> m.x_label,
     y_label |-> m.y_label]

\* what request.get_json(silent=True) can hand to the validator
Payloads ==
    {JsonNull, JsonNumber, JsonArray(<<[kind |-> "num", n |-> MIN_POINTS]>>)}
        \cup {JsonObject(d, m) : d \in DataValues, m \in MetaCases}

\* a request body: its content type says JSON or not; a body that does not
\* parse decodes to None
TextBody == [is_json |-> FALSE, payload |-> JsonNull]
JsonBody(p) == [is_json |-> TRUE, payload |-> p]
Bodies == {TextBody} \cup {JsonBody(p) : p \in Payloads}

NoMeta == [title |-> Absent, x_label |-> Absent, y_label |-> Absent]
Labelled ==
    [title |-> JsonString("Squares"), x_label |-> JsonString("n"),
     y_label |-> JsonString("n^2")]
Run(k, n) == [kind |-> k, n |-> n]

\* the bodies the concurrent workers are sent
ServiceBodies ==
    {TextBody,
     JsonBody(JsonObject(JsonArray(<<Run("num", MIN_POINTS)>>), Labelled)),
     JsonBody(JsonObject(JsonArray(<<Run("num", MAX_POINTS)>>), NoMeta)),
     JsonBody(JsonObject(JsonArray(<<Run("num", 1), Run("bigint", 1)>>), NoMeta)),
     JsonBody(JsonObject(JsonArray(<<Run("str", MIN_POINTS)>>), NoMeta))}

\* ------------------------------------------------------------- state
VARIABLES
    PLOTS,        \* the index: plot_id -> [path, created_at]
    files,        \* the paths that exist in the plots directory
    issued,       \* how many identifiers uuid4 has handed out
    pc,           \* per worker: where its handler stands
    req,          \* per worker: the request it serves
    loc,          \* per worker: the handler's local variables
    resp,         \* per worker: the response its handler returned
    returnedSeq,  \* history: the plot_ids of the 200 responses, in order
    deleted       \* history: the paths an external actor removed

vars == <<PLOTS, files, issued, pc, req, loc, resp, returnedSeq, deleted>>

\* two request threads: every claim is about one handler and what another
\* handler, or the outside, does between its steps
Workers == {1, 2}
ForeignIds == {0}
Times == 0..MaxClock

NoReq == [op |-> "none"]
NoLoc == [f |-> "none"]
NoResp == [status |-> 0]

\* os.path.join(PLOTS_DIR, f"{plot_id}.png")
PathOf(plot_id) == [dir |-> PLOTS_DIR, stem |-> plot_id, ext |-> ".png"]

\* jsonify(body), status
Json(status, body) == [status |-> status, ctype |-> "application/json", body |-> body]
ErrorEnvelope(status, message) ==
    Json(status, [status |-> "error", message |-> message])
\* an exception that leaves a handler: the framework answers 500 itself
Unhandled(exc) == [status |-> 500, ctype |-> "text/html", body |-> [exception |-> exc]]

\* DictSet rebinding the name to a new one-entry dict
DictSetRebinds(d, key, value) == [k \in {key} |-> value]

\* d[key] = value
DictSet(d, key, value) ==
    [k \in DOMAIN d \cup {key} |-> IF k = key THEN value ELSE d[k]]

Init ==
    /\ PLOTS = <<>>
    /\ files = {}
    /\ issued = 0
    /\ pc = [t \in Workers |-> "idle"]
    /\ req = [t \in Workers |-> NoReq]
    /\ loc = [t \in Workers |-> NoLoc]
    /\ resp = [t \in Workers |-> NoResp]
    /\ returnedSeq = <<>>
    /\ deleted = {}

\* ------------------------------------------------------------ routes
\* Health counting the files of the directory instead of the index
HealthCountsFiles(t) ==
    /\ pc[t] = "idle"
    /\ req' = [req EXCEPT ![t] = [op |-> "health"]]
    /\ resp' = [resp EXCEPT ![t] =
           Json(200, [status |-> "ok", service |-> "data-plot-visualizer",
                      stored_plots |-> Cardinality(files)])]
    /\ pc' = [pc EXCEPT ![t] = "done"]
    /\ UNCHANGED <<PLOTS, files, issued, loc, returnedSeq, deleted>>

\* GET /health
Health(t) ==
    /\ pc[t] = "idle"
    /\ req' = [req EXCEPT ![t] = [op |-> "health"]]
    /\ resp' = [resp EXCEPT ![t] =
           Json(200, [status |-> "ok", service |-> "data-plot-visualizer",
                      stored_plots |-> Cardinality(DOMAIN PLOTS)])]
    /\ pc' = [pc EXCEPT ![t] = "done"]
    /\ UNCHANGED <<PLOTS, files, issued, loc, returnedSeq, deleted>>

\* CreateRequest saving a figure before it looks at the validation result
CreateRequestSavesFirst(t, bodies) ==
    /\ pc[t] = "idle"
    /\ \E body \in bodies :
          /\ req' = [req EXCEPT ![t] = [op |-> "create", body |-> body]]
          /\ files' = files \cup {PathOf(issued + 1)}
          /\ IF ~body.is_json
             THEN /\ resp' = [resp EXCEPT ![t] = ErrorEnvelope(400, "expected json body")]
                  /\ pc' = [pc EXCEPT ![t] = "done"]
                  /\ loc' = loc
             ELSE LET r == ValidatePlotRequest(body.payload) IN
                  /\ loc' = [loc EXCEPT ![t] = [validated |-> r]]
                  /\ IF r.raised # "none"
                     THEN /\ resp' = [resp EXCEPT ![t] = Unhandled(r.raised)]
                          /\ pc' = [pc EXCEPT ![t] = "done"]
                     ELSE IF r.x_values = NoneVal
                     THEN /\ resp' = [resp EXCEPT ![t] =
                                 ErrorEnvelope(400, r.meta_or_error)]
                          /\ pc' = [pc EXCEPT ![t] = "done"]
                     ELSE /\ resp' = resp
                          /\ pc' = [pc EXCEPT ![t] = "generate"]
    /\ UNCHANGED <<PLOTS, issued, returnedSeq, deleted>>

\* POST /plots up to the call of _generate_plot_file: the content-type
\* check, the decoding and the validation touch nothing shared
CreateRequest(t, bodies) ==
    /\ pc[t] = "idle"
    /\ \E body \in bodies :
          /\ req' = [req EXCEPT ![t] = [op |-> "create", body |-> body]]
          /\ IF ~body.is_json
             THEN /\ resp' = [resp EXCEPT ![t] = ErrorEnvelope(400, "expected json body")]
                  /\ pc' = [pc EXCEPT ![t] = "done"]
                  /\ loc' = loc
             ELSE LET r == ValidatePlotRequest(body.payload) IN
                  /\ loc' = [loc EXCEPT ![t] = [validated |-> r]]
                  /\ IF r.raised # "none"
                     THEN /\ resp' = [resp EXCEPT ![t] = Unhandled(r.raised)]
                          /\ pc' = [pc EXCEPT ![t] = "done"]
                     ELSE IF r.x_values = NoneVal
                     THEN /\ resp' = [resp EXCEPT ![t] =
                                 ErrorEnvelope(400, r.meta_or_error)]
                          /\ pc' = [pc EXCEPT ![t] = "done"]
                     ELSE /\ resp' = resp
                          /\ pc' = [pc EXCEPT ![t] = "generate"]
    /\ UNCHANGED <<PLOTS, files, issued, returnedSeq, deleted>>

\* the identifier handed out last, handed out again
Uuid4Stale == IF issued = 0 THEN 1 ELSE issued

\* str(uuid.uuid4()): an identifier nobody holds yet
Uuid4 == issued + 1

\* GenSaveFig without the savefig call
GenSaveFigNoFile(t) ==
    /\ pc[t] = "generate"
    /\ issued < MaxPlots
    /\ loc' = [loc EXCEPT ![t] =
           [validated |-> loc[t].validated, plot_id |-> issued + 1,
            file_path |-> PathOf(issued + 1)]]
    /\ issued' = issued + 1
    /\ pc' = [pc EXCEPT ![t] = "saved"]
    /\ UNCHANGED <<PLOTS, files, req, resp, returnedSeq, deleted>>

\* _generate_plot_file, lines 99-114: the identifier, the path, the figure
\* saved to the path
GenSaveFig(t) ==
    /\ pc[t] = "generate"
    /\ issued < MaxPlots
    /\ LET plot_id == Uuid4 IN
       /\ loc' = [loc EXCEPT ![t] =
              [validated |-> loc[t].validated, plot_id |-> plot_id,
               file_path |-> PathOf(plot_id)]]
       /\ files' = files \cup {PathOf(plot_id)}
    /\ issued' = issued + 1
    /\ pc' = [pc EXCEPT ![t] = "saved"]
    /\ UNCHANGED <<PLOTS, req, resp, returnedSeq, deleted>>

\* _generate_plot_file, lines 116-123: the time read, the record inserted
GenInsert(t) ==
    /\ pc[t] = "saved"
    /\ \E created_at \in Times :
          /\ PLOTS' = DictSet(PLOTS, loc[t].plot_id,
                 [path |-> loc[t].file_path, created_at |-> created_at])
          /\ loc' = [loc EXCEPT ![t] =
                 [validated |-> loc[t].validated, plot_id |-> loc[t].plot_id,
                  file_path |-> loc[t].file_path, created_at |-> created_at]]
    /\ pc' = [pc EXCEPT ![t] = "inserted"]
    /\ UNCHANGED <<files, issued, req, resp, returnedSeq, deleted>>

\* create_plot, lines 185-195: the 200 response
CreateRespond(t) ==
    /\ pc[t] = "inserted"
    /\ resp' = [resp EXCEPT ![t] =
           Json(200, [status |-> "ok", plot_id |-> loc[t].plot_id,
                      created_at |-> loc[t].created_at,
                      image_path |-> loc[t].file_path])]
    /\ returnedSeq' = Append(returnedSeq, loc[t].plot_id)
    /\ pc' = [pc EXCEPT ![t] = "done"]
    /\ UNCHANGED <<PLOTS, files, issued, req, loc, deleted>>

\* the elements of a sequence
Range(seq) == {seq[i] : i \in DOMAIN seq}

\* The identifiers a client can ask for: those a 200 response told it, and
\* strings of its own making, which uuid4 never produces.
Requestable == Range(returnedSeq) \cup ForeignIds

\* DownloadLookup answering an unknown identifier as a missing file
DownloadLookupNo404(t, plot_id) ==
    /\ pc[t] = "idle"
    /\ req' = [req EXCEPT ![t] =
           [op |-> "download", plot_id |-> plot_id,
            on_disk |-> PathOf(plot_id) \in files]]
    /\ IF plot_id \notin DOMAIN PLOTS
       THEN /\ resp' = [resp EXCEPT ![t] =
                   ErrorEnvelope(500, "plot file is missing or unavailable")]
            /\ pc' = [pc EXCEPT ![t] = "done"]
            /\ loc' = loc
       ELSE /\ loc' = [loc EXCEPT ![t] = [info |-> PLOTS[plot_id]]]
            /\ pc' = [pc EXCEPT ![t] = "check"]
            /\ resp' = resp
    /\ UNCHANGED <<PLOTS, files, issued, returnedSeq, deleted>>

\* GET /plots/<plot_id>, lines 203-213: the lookup.  on_disk is history:
\* whether the file named after plot_id was there when the request came.
DownloadLookup(t, plot_id) ==
    /\ pc[t] = "idle"
    /\ req' = [req EXCEPT ![t] =
           [op |-> "download", plot_id |-> plot_id,
            on_disk |-> PathOf(plot_id) \in files]]
    /\ IF plot_id \notin DOMAIN PLOTS
       THEN /\ resp' = [resp EXCEPT ![t] =
                   ErrorEnvelope(404, "plot '<plot_id>' not found")]
            /\ pc' = [pc EXCEPT ![t] = "done"]
            /\ loc' = loc
       ELSE /\ loc' = [loc EXCEPT ![t] = [info |-> PLOTS[plot_id]]]
            /\ pc' = [pc EXCEPT ![t] = "check"]
            /\ resp' = resp
    /\ UNCHANGED <<PLOTS, files, issued, returnedSeq, deleted>>

\* DownloadCheck answering a missing file as an unknown identifier
DownloadCheck404(t) ==
    /\ pc[t] = "check"
    /\ IF loc[t].info.path \notin files
       THEN /\ resp' = [resp EXCEPT ![t] =
                   ErrorEnvelope(404, "plot '<plot_id>' not found")]
            /\ pc' = [pc EXCEPT ![t] = "done"]
       ELSE /\ resp' = resp
            /\ pc' = [pc EXCEPT ![t] = "send"]
    /\ UNCHANGED <<PLOTS, files, issued, req, loc, returnedSeq, deleted>>

\* lines 215-225: os.path.exists(file_path)
DownloadCheck(t) ==
    /\ pc[t] = "check"
    /\ IF loc[t].info.path \notin files
       THEN /\ resp' = [resp EXCEPT ![t] =
                   ErrorEnvelope(500, "plot file is missing or unavailable")]
            /\ pc' = [pc EXCEPT ![t] = "done"]
       ELSE /\ resp' = resp
            /\ pc' = [pc EXCEPT ![t] = "send"]
    /\ UNCHANGED <<PLOTS, files, issued, req, loc, returnedSeq, deleted>>

\* lines 228-233: send_file opens the file; a file gone since the check
\* raises FileNotFoundError
DownloadSend(t) ==
    /\ pc[t] = "send"
    /\ resp' = [resp EXCEPT ![t] =
           IF loc[t].info.path \in files
           THEN [status |-> 200, ctype |-> "image/png",
                 body |-> [file |-> loc[t].info.path],
                 download_name |-> [prefix |-> "plot-", stem |-> req[t].plot_id,
                                    ext |-> ".png"]]
           ELSE Unhandled("FileNotFoundError")]
    /\ pc' = [pc EXCEPT ![t] = "done"]
    /\ UNCHANGED <<PLOTS, files, issued, req, loc, returnedSeq, deleted>>

\* the response leaves; the worker takes the next request
Return(t) ==
    /\ pc[t] = "done"
    /\ pc' = [pc EXCEPT ![t] = "idle"]
    /\ req' = [req EXCEPT ![t] = NoReq]
    /\ loc' = [loc EXCEPT ![t] = NoLoc]
    /\ resp' = [resp EXCEPT ![t] = NoResp]
    /\ UNCHANGED <<PLOTS, files, issued, returnedSeq, deleted>>

\* somebody outside the service removes a file of the plots directory
ExternalDelete ==
    /\ \E p \in files :
          /\ files' = files \ {p}
          /\ deleted' = deleted \cup {p}
    /\ UNCHANGED <<PLOTS, issued, pc, req, loc, resp, returnedSeq>>

Next ==
    \/ \E t \in Workers : Health(t)
    \/ \E t \in Workers : CreateRequest(t, ServiceBodies)
    \/ \E t \in Workers : GenSaveFig(t)
    \/ \E t \in Workers : GenInsert(t)
    \/ \E t \in Workers : CreateRespond(t)
    \/ \E t \in Workers : \E plot_id \in Requestable : DownloadLookup(t, plot_id)
    \/ \E t \in Workers : DownloadCheck(t)
    \/ \E t \in Workers : DownloadSend(t)
    \/ \E t \in Workers : Return(t)
    \/ ExternalDelete

Spec == Init /\ [][Next]_vars

\* One worker validating every body of Bodies: the specification of the
\* claims about the validator and the 400 responses.
ValidatorNext ==
    \/ CreateRequest(1, Bodies)
    \/ Return(1)

ValidatorSpec == Init /\ [][ValidatorNext]_vars

\* ------------------------------------------------------------ claims
Done(t) == pc[t] = "done"
IsCreate(t) == req[t].op = "create"
IsJsonCreate(t) == IsCreate(t) /\ req[t].body.is_json
IsDownload(t) == req[t].op = "download"
IsHealth(t) == req[t].op = "health"
IsEnvelope(r, status) ==
    /\ r.status = status
    /\ r.ctype = "application/json"
    /\ r.body.status = "error"

\* the kinds of element float() converts
Convertible == {"num", "numstr"}
\* the kinds of element that are JSON numbers
JsonNumbers == {"num", "bigint"}
\* the kinds of element that are no number at all
NonNumeric == {"str", "null"}

AllOf(a, kinds) == \A i \in DOMAIN a.runs : a.runs[i].kind \in kinds
SomeOf(a, kinds) == \E i \in DOMAIN a.runs : a.runs[i].kind \in kinds
LenOk(a) == PyLen(a) >= MIN_POINTS /\ PyLen(a) <= MAX_POINTS

\* the payload's `data` is a flat array of 2..5000 elements of these kinds
FlatArrayOf(body, kinds) ==
    /\ body.is_json
    /\ body.payload.t = "object"
    /\ body.payload.data.t = "array"
    /\ LenOk(body.payload.data)
    /\ AllOf(body.payload.data, kinds)

Occurrences(seq, v) == Cardinality({i \in DOMAIN seq : seq[i] = v})

\* the response of worker t is the 200 of a POST whose plot_id no other 200
\* carries, whose record is in the index and whose file is on disk (unless
\* somebody outside removed it meanwhile)
CreatedFresh(t) ==
    /\ resp[t].status = 200
    /\ resp[t].body.status = "ok"
    /\ Occurrences(returnedSeq, resp[t].body.plot_id) = 1
    /\ resp[t].body.plot_id \in DOMAIN PLOTS
    /\ resp[t].body.image_path \in files \cup deleted

Pending == {t \in Workers : pc[t] = "inserted"}

HasXY(body) ==
    /\ body.is_json
    /\ body.payload.t = "object"
    /\ body.payload.data.t = "object"
DataX(body) == body.payload.data.x
DataY(body) == body.payload.data.y

SameLengthError(r) ==
    /\ IsEnvelope(r, 400)
    /\ r.body.message = "x and y must have the same length"

\* C3 as stated: a POST whose data.x and data.y are arrays of different
\* lengths is answered 400 with the "same length" message.
C3_AnyMismatch ==
    \A t \in Workers :
        (Done(t) /\ IsCreate(t) /\ HasXY(req[t].body)
         /\ DataX(req[t].body).t = "array" /\ DataY(req[t].body).t = "array"
         /\ PyLen(DataX(req[t].body)) # PyLen(DataY(req[t].body)))
            => SameLengthError(resp[t])

\* C3 amended: a POST whose data.y is an array of 2..5000 values float()
\* converts and whose data.x is an array of another length is answered 400
\* with the "same length" message.
C3_MismatchAfterY ==
    \A t \in Workers :
        (IsCreate(t) /\ HasXY(req[t].body)
         /\ DataX(req[t].body).t = "array" /\ DataY(req[t].body).t = "array"
         /\ LenOk(DataY(req[t].body)) /\ AllOf(DataY(req[t].body), Convertible)
         /\ PyLen(DataX(req[t].body)) # PyLen(DataY(req[t].body)))
            => (Done(t) /\ SameLengthError(resp[t]))

C3_Witness ==
    \E t \in Workers :
        /\ Done(t) /\ IsCreate(t) /\ HasXY(req[t].body)
        /\ DataX(req[t].body).t = "array" /\ DataY(req[t].body).t = "array"
        /\ PyLen(DataY(req[t].body)) = MAX_POINTS
        /\ PyLen(DataX(req[t].body)) = 1
        /\ SomeOf(DataX(req[t].body), NonNumeric)
        /\ SameLengthError(resp[t])

\* the array the validator takes as y: `data` itself or data.y
YOf(body) ==
    IF body.payload.data.t = "object" THEN body.payload.data.y
    ELSE body.payload.data

NumericError(r) ==
    /\ IsEnvelope(r, 400)
    /\ r.body.message \in {"all y values must be numeric",
                           "all x values must be numeric"}

\* C4: a POST whose `data` array (or data.y array) holds an element that is
\* not convertible to a number is answered 400 with a "numeric" message.
\* Read with the order of the rules: the array has the 2..5000 elements
\* the earlier rules ask for.
C4_NonNumericRejected ==
    \A t \in Workers :
        (Done(t) /\ IsJsonCreate(t) /\ req[t].body.payload.t = "object"
         /\ YOf(req[t].body).t = "array" /\ LenOk(YOf(req[t].body))
         /\ SomeOf(YOf(req[t].body), NonNumeric))
            => NumericError(resp[t])

\* The validator of the specification: rules 1-9 in their order, the first
\* failing rule giving the error.
RefIsObject(p) == p.t = "object"
RefData(p) == IF RefIsObject(p) THEN p.data ELSE Absent
RefPresent(v) == v.t \notin {"absent", "null"}
RefY(p) == IF RefData(p).t = "object" THEN RefData(p).y ELSE RefData(p)
RefX(p) == IF RefData(p).t = "object" THEN RefData(p).x ELSE Absent
RefIsArray(v) == v.t = "array"
RefLen(v) == IF RefIsArray(v) THEN SumRuns(v.runs) ELSE 0
RefNumeric(v) == RefIsArray(v) /\ AllOf(v, Convertible)
RefFloats(v) ==
    PyFloats([i \in DOMAIN v.runs |-> [kind |-> "float", n |-> v.runs[i].n]])
RefDefault(field, default) ==
    IF field.t = "absent" THEN default
    ELSE IF field.t = "string" THEN field.s
    ELSE IF field.t = "null" THEN "None"
    ELSE field.lit

RefRules(p) ==
    << <<RefIsObject(p), "request body must be a json object">>,
       <<RefPresent(RefData(p)), "missing 'data' field">>,
       <<RefIsArray(RefY(p)), "'data' or 'data.y' must be an array of numbers">>,
       <<RefLen(RefY(p)) >= 2, "at least two data points are required">>,
       <<RefLen(RefY(p)) <= 5000, "data contains too many points (max 5000)">>,
       <<RefNumeric(RefY(p)), "all y values must be numeric">>,
       <<RefPresent(RefX(p)) => RefIsArray(RefX(p)),
         "'data.x' must be an array of numbers">>,
       <<RefPresent(RefX(p)) => RefLen(RefX(p)) = RefLen(RefY(p)),
         "x and y must have the same length">>,
       <<RefPresent(RefX(p)) => RefNumeric(RefX(p)),
         "all x values must be numeric">> >>

RefFailing(p) == {i \in DOMAIN RefRules(p) : ~RefRules(p)[i][1]}
RefFirst(p) == CHOOSE i \in RefFailing(p) : \A j \in RefFailing(p) : i <= j

RefValidate(p) ==
    IF RefFailing(p) # {}
    THEN Failed(RefRules(p)[RefFirst(p)][2])
    ELSE Returned(IF RefPresent(RefX(p)) THEN RefFloats(RefX(p))
                  ELSE PyRange(RefLen(RefY(p))),
                  RefFloats(RefY(p)),
                  [title |-> RefDefault(p.title, "Data Plot"),
                   x_label |-> RefDefault(p.x_label, "Index"),
                   y_label |-> RefDefault(p.y_label, "Value")])

\* the elements of a returned list
ValuesLen(v) == IF v.t = "range" THEN v.n ELSE SumRuns(v.runs)

\* C9: for every input _validate_plot_request returns, and returns what the
\* validator of rules 1-9 returns: either a triple or an error, never both;
\* a triple has as many x as y values, and x is 0..len(y)-1 when the
\* payload gives no x.
C9_ValidatorFollowsRules ==
    \A t \in Workers :
        IsJsonCreate(t) =>
            LET r == loc[t].validated
                p == req[t].body.payload
            IN  /\ r.raised = "none"
                /\ (r.x_values = NoneVal) <=> (r.y_values = NoneVal)
                /\ r = RefValidate(p)
                /\ (r.x_values # NoneVal =>
                       /\ ValuesLen(r.x_values) = ValuesLen(r.y_values)
                       /\ (~RefPresent(RefX(p)) =>
                              r.x_values = PyRange(ValuesLen(r.y_values))))

\* C5: a GET /plots/{id} for an id no POST /plots returned is answered 404
\* with the error envelope, whatever requests came before.
C5_UnknownIs404 ==
    \A t \in Workers :
        (IsDownload(t) /\ req[t].plot_id \notin Range(returnedSeq))
            => (Done(t) /\ IsEnvelope(resp[t], 404))

C5_Witness ==
    \E t \in Workers :
        /\ Done(t) /\ IsDownload(t)
        /\ req[t].plot_id \notin Range(returnedSeq)
        /\ resp[t].status = 404
        /\ Len(returnedSeq) >= 1
        /\ \E u \in Workers : pc[u] = "inserted"

\* C6: a GET /plots/{id} for an id a POST returned is never answered 404;
\* with the recorded file on disk it is answered 200 image/png; with the
\* file missing when the request came it is answered 500 with the error
\* envelope.  (A file removed between the existence check and the send is
\* answered 500 by the framework.)
C6_DownloadKnown ==
    \A t \in Workers :
        (Done(t) /\ IsDownload(t) /\ req[t].plot_id \in Range(returnedSeq)) =>
            /\ resp[t].status \in {200, 500}
            /\ (PLOTS[req[t].plot_id].path \in files =>
                   resp[t].status = 200 /\ resp[t].ctype = "image/png")
            /\ (~req[t].on_disk => IsEnvelope(resp[t], 500))
            /\ (resp[t].status = 500 => PLOTS[req[t].plot_id].path \in deleted)

C6_Witness ==
    \E t, u \in Workers :
        /\ Done(t) /\ IsDownload(t) /\ req[t].plot_id \in Range(returnedSeq)
        /\ ~req[t].on_disk /\ IsEnvelope(resp[t], 500)
        /\ Done(u) /\ IsDownload(u) /\ req[u].plot_id \in Range(returnedSeq)
        /\ resp[u].status = 200 /\ resp[u].ctype = "image/png"

\* C7: the step in which a POST /plots is answered 400 leaves the index and
\* the files of the directory as they were, and a POST answered 400 has
\* taken no other step: no identifier, no file, no record.
C7_RejectedWritesNothing ==
    [][\A t \in Workers :
          (req'[t].op = "create" /\ pc'[t] = "done" /\ resp'[t].status = 400
           /\ pc[t] # "done") =>
              /\ pc[t] = "idle"
              /\ PLOTS' = PLOTS
              /\ files' = files
              /\ issued' = issued]_vars

C7_Witness ==
    \E t \in Workers :
        /\ Done(t) /\ IsCreate(t) /\ resp[t].status = 400
        /\ req[t].body.is_json
        /\ files # {}
        /\ PLOTS # <<>>

\* C8: while nobody outside has deleted a file, every identifier of the
\* index has its file <identifier>.png on disk; a file without a record
\* can be seen, a record without a file cannot.
C8_IndexedHasFile ==
    deleted = {} =>
        \A id \in DOMAIN PLOTS :
            /\ PLOTS[id].path = PathOf(id)
            /\ PLOTS[id].path \in files

\* a file is on disk and its record is not yet in the index
C8_Witness ==
    /\ deleted = {}
    /\ PLOTS # <<>>
    /\ \E p \in files : \A id \in DOMAIN PLOTS : PLOTS[id].path # p

\* C10: no step removes a record of the index or changes its path or its
\* created_at, and the record a download has read is the record the index
\* holds for that id.
C10_IndexAdditive ==
    [][/\ \A id \in DOMAIN PLOTS :
             /\ id \in DOMAIN PLOTS'
             /\ PLOTS'[id] = PLOTS[id]
       /\ \A t \in Workers :
             pc[t] \in {"check", "send"} =>
                 /\ req[t].plot_id \in DOMAIN PLOTS
                 /\ loc[t].info = PLOTS[req[t].plot_id]]_vars

\* both workers have downloaded the same plot, and a later plot is indexed
C10_Witness ==
    /\ Cardinality(DOMAIN PLOTS) = 2
    /\ \E id \in DOMAIN PLOTS : \E id2 \in DOMAIN PLOTS :
          /\ PLOTS[id].created_at # PLOTS[id2].created_at
          /\ \A t \in Workers :
                Done(t) /\ IsDownload(t) /\ req[t].plot_id = id
                /\ resp[t].status = 200

====
